---------------------------- MODULE Spec2Model ----------------------------
(***************************************************************************)
(* A model of cycloidal.py: cycloidal_profile (the sampled profile of a    *)
(* cycloidal disc, Chen BingKui et al. eqs. 10, 11) and dual_cycloidal     *)
(* (two discs, the pin ring and the bearing holes in one drawing).         *)
(*                                                                         *)
(* Numbers.  A float is held in fixed point, as the integer nearest to     *)
(* Scale times its value, or as one of the three non-finite values NaN,    *)
(* PosInf, NegInf.  An angle is held exactly, as a fraction <<n, d>> of a   *)
(* turn (d > 0); 2*pi enters where a sine or cosine is taken.  The         *)
(* counts (count_pin, count_cam) and the resolution are exact rationals    *)
(* <<n, d>>, so that int() has something to truncate.                      *)
(***************************************************************************)
EXTENDS Integers, Sequences, FiniteSets, TLC

----------------------------------------------------------------------------
(* Fixed-point floats *)

\* one unit of the fixed point is 1/Scale
Scale == 10000

\* 2*pi in fixed point (np.pi * 2)
TwoPi == 62832

\* the non-finite floats
NaN == 2000000000
PosInf == 2000000001
NegInf == 2000000002

IsFinite(v) == v < NaN

Abs(v) == IF v < 0 THEN -v ELSE v

Sign(v) == IF v > 0 THEN 1 ELSE IF v < 0 THEN -1 ELSE 0

\* a / b rounded to the nearest integer, halves upwards (b # 0)
RDiv(a, b) == IF b > 0 THEN (a + (b \div 2)) \div b
                       ELSE ((-a) + ((-b) \div 2)) \div (-b)

FNeg(a) == IF a = NaN THEN NaN
           ELSE IF a = PosInf THEN NegInf
           ELSE IF a = NegInf THEN PosInf
           ELSE -a

FAdd(a, b) == IF a = NaN \/ b = NaN THEN NaN
              ELSE IF IsFinite(a) /\ IsFinite(b) THEN a + b
              ELSE IF IsFinite(a) THEN b
              ELSE IF IsFinite(b) \/ a = b THEN a
              ELSE NaN

FSub(a, b) == FAdd(a, FNeg(b))

FMul(a, b) == IF a = NaN \/ b = NaN THEN NaN
              ELSE IF IsFinite(a) /\ IsFinite(b) THEN RDiv(a * b, Scale)
              ELSE LET sa == IF a = PosInf THEN 1 ELSE IF a = NegInf THEN -1 ELSE Sign(a)
                       sb == IF b = PosInf THEN 1 ELSE IF b = NegInf THEN -1 ELSE Sign(b)
                   IN  IF sa * sb = 0 THEN NaN
                       ELSE IF sa * sb > 0 THEN PosInf ELSE NegInf

\* numpy's array division: x/0 is an infinity and 0/0 is nan, with a warning
\* and no exception
FDiv(a, b) == IF a = NaN \/ b = NaN THEN NaN
              ELSE IF IsFinite(a) /\ IsFinite(b)
                   THEN IF b # 0 THEN RDiv(a * Scale, b)
                        ELSE IF a = 0 THEN NaN
                        ELSE IF a > 0 THEN PosInf ELSE NegInf
              ELSE IF ~IsFinite(a) /\ ~IsFinite(b) THEN NaN
              ELSE IF IsFinite(a) THEN 0
              ELSE IF (a = PosInf) = (b >= 0) THEN PosInf ELSE NegInf

RECURSIVE ISqrt(_, _, _)
\* the largest r in lo..hi with r * r <= n
ISqrt(n, lo, hi) == IF lo >= hi THEN lo
                    ELSE LET mid == (lo + hi + 1) \div 2
                         IN  IF mid * mid <= n THEN ISqrt(n, mid, hi)
                                               ELSE ISqrt(n, lo, mid - 1)

\* np.sqrt: nan below zero
FSqrt(a) == IF a = NaN \/ a = NegInf THEN NaN
            ELSE IF a = PosInf THEN PosInf
            ELSE IF a < 0 THEN NaN
            ELSE LET r == ISqrt(a * Scale, 0, 46340)
                 IN  IF (a * Scale) - r * r > r THEN r + 1 ELSE r

----------------------------------------------------------------------------
(* Exact rationals <<n, d>>, d > 0 *)

Norm(n, d) == IF d < 0 THEN <<-n, -d>> ELSE <<n, d>>

QSub(p, q) == <<p[1] * q[2] - q[1] * p[2], p[2] * q[2]>>

QAdd(p, q) == <<p[1] * q[2] + q[1] * p[2], p[2] * q[2]>>

QMul(p, q) == <<p[1] * q[1], p[2] * q[2]>>

QEq(p, q) == p[1] * q[2] = q[1] * p[2]

\* int(): truncation towards zero
Trunc(q) == IF q[1] >= 0 THEN q[1] \div q[2] ELSE -((-q[1]) \div q[2])

----------------------------------------------------------------------------
(* Sine and cosine of an angle given as a fraction of a turn *)

\* the angle n/d of a turn in radians, 0 <= n/d <= 1/8
Radians(n, d) == RDiv(TwoPi * n, d)

SinSeries(x) == LET x2 == RDiv(x * x, Scale)
                    x3 == RDiv(x2 * x, Scale)
                    x5 == RDiv(x3 * x2, Scale)
                    x7 == RDiv(x5 * x2, Scale)
                IN  x - RDiv(x3, 6) + RDiv(x5, 120) - RDiv(x7, 5040)

CosSeries(x) == LET x2 == RDiv(x * x, Scale)
                    x4 == RDiv(x2 * x2, Scale)
                    x6 == RDiv(x4 * x2, Scale)
                IN  Scale - RDiv(x2, 2) + RDiv(x4, 24) - RDiv(x6, 720)

\* sin(2*pi*n/d) for 0 <= n/d <= 1/4
SinQuarter(n, d) == IF 8 * n <= d THEN SinSeries(Radians(n, d))
                    ELSE CosSeries(Radians(d - 4 * n, 4 * d))

\* sin(2*pi*n/d) for 0 <= n/d < 1/2
SinHalf(n, d) == IF 4 * n <= d THEN SinQuarter(n, d)
                 ELSE SinQuarter(d - 2 * n, 2 * d)

\* np.sin of the angle q (turns)
Sin(q) == LET r == q[1] % q[2]
              d == q[2]
          IN  IF 2 * r < d THEN SinHalf(r, d) ELSE -SinHalf(2 * r - d, 2 * d)

\* np.cos of the angle q (turns)
Cos(q) == Sin(<<4 * q[1] + q[2], 4 * q[2]>>)

----------------------------------------------------------------------------
(* cycloidal_profile, statement by statement *)

\* count_cam=None
None == <<>>

\* Zb = int(count_pin)
ZbOf(count_pin) == Trunc(count_pin)

\* Zg: count_pin - 1 as it is passed (not coerced) when count_cam is None,
\* else int(count_cam)
ZgOf(count_pin, count_cam) == IF count_cam = None THEN QSub(count_pin, <<1, 1>>)
                              ELSE <<Trunc(count_cam), 1>>

\* Zb - Zg
TeethDiff(Zb, Zg) == QSub(<<Zb, 1>>, Zg)

\* Rz * (Zb - Zg), the divisor of K1
K1Divisor(Rz, Zb, Zg) == RDiv(Rz * TeethDiff(Zb, Zg)[1], TeethDiff(Zb, Zg)[2])

\* a zero radius alone raising, equal counts dividing on as numpy's arrays do
RaisesOnZeroRadiusOnly(Rz, Zb, Zg) == Rz = 0

\* the divisions of lines 61-63 are Python's, which raise on a zero divisor
RaisesZeroDivision(Rz, Zb, Zg) == \/ TeethDiff(Zb, Zg)[1] = 0
                                  \/ K1Divisor(Rz, Zb, Zg) = 0

\* Ze = Zb / (Zb - Zg)
ZeOf(Zb, Zg) == LET d == TeethDiff(Zb, Zg) IN Norm(Zb * d[2], d[1])

\* Zd = Zg / (Zb - Zg)
ZdOf(Zb, Zg) == LET d == TeethDiff(Zb, Zg) IN Norm(Zg[1] * d[2], Zg[2] * d[1])

\* K1 = (e * Zb) / (Rz * (Zb - Zg))
K1Of(e, Zb, Rz, Zg) == FDiv(e * Zb, K1Divisor(Rz, Zb, Zg))

\* np.sign(Zb - Zg)
SignDiff(Zb, Zg) == Sign(TeethDiff(Zb, Zg)[1])

\* the sample count int(resolution * 360)
DegreesPerTurn == 360

SampleCount(resolution) == Trunc(QMul(resolution, <<DegreesPerTurn, 1>>))

\* the samples with the end point left out (endpoint=False)
LinspaceOpenEnd(n) == [i \in 1..n |-> <<i - 1, n>>]

\* np.linspace(0, 2*pi, n): n samples, both ends included, in turns
Linspace(n) == [i \in 1..n |-> IF n = 1 THEN <<0, 1>> ELSE <<i - 1, n - 1>>]

\* Ze * psi, Zd * psi
Times(Z, q) == QMul(Z, q)

\* denom_B at one sample
DenomAt(K1, Zd, q) ==
    FSqrt(FSub(FAdd(Scale, FMul(K1, K1)), FMul(2 * K1, Cos(Times(Zd, q)))))

\* cos_B at one sample
CosBAt(sgn, K1, Ze, q, denom) ==
    FDiv(FMul(sgn * Scale, FSub(FMul(K1, Sin(Times(Ze, q))), Sin(q))), denom)

\* sin_B at one sample
SinBAt(sgn, K1, Ze, q, denom) ==
    FDiv(FMul(sgn * Scale, FAdd(FMul(-K1, Cos(Times(Ze, q))), Cos(q))), denom)

\* x at one sample
XAt(Rz, e, rz, Ze, q, cosB) ==
    FAdd(FSub(FMul(Rz, Sin(q)), FMul(e, Sin(Times(Ze, q)))), FMul(rz, cosB))

\* y at one sample
YAt(Rz, e, rz, Ze, q, sinB) ==
    FSub(FSub(FMul(Rz, Cos(q)), FMul(e, Cos(Times(Ze, q)))), FMul(rz, sinB))

\* np.column_stack((x, y))
ColumnStack(xs, ys) == [i \in 1..Len(xs) |-> <<xs[i], ys[i]>>]

----------------------------------------------------------------------------
(* The trimesh calls of dual_cycloidal.  A path is a record of its vertices  *)
(* and its entities; an entity names its kind, its layer and the run of      *)
(* vertices it is drawn through.                                             *)

\* the layer of an entity no apply_layer has tagged
NoLayer == "None"

Entity(kind, first, count, closed) ==
    [kind |-> kind, layer |-> NoLayer, first |-> first, count |-> count,
     closed |-> closed]

\* trimesh.load_path of an (n, 2) array: one polyline through the points,
\* closed when it ends where it starts
LoadPath(points) ==
    [vertices |-> points,
     entities |-> IF Len(points) = 0 THEN <<>>
                  ELSE <<Entity("Line", 1, Len(points),
                                points[1] = points[Len(points)])>>]

IsClosedEntity(en) == en.closed

\* Path2D.simplify_spline(smooth=1e-6): a new path holding one closed B-spline
\* for each closed curve.  The fit stays within 1e-6 of the curve, which is
\* below one unit of the fixed point, so the geometry is carried over as is.
SimplifySpline(path) ==
    LET closed == SelectSeq(path.entities, IsClosedEntity)
    IN  [vertices |-> path.vertices,
         entities |-> [i \in 1..Len(closed) |->
                          [closed[i] EXCEPT !.kind = "BSpline", !.layer = NoLayer]]]

\* Path2D.copy(): a new object with the same content
Copy(path) == path

\* trimesh.transformations.planar_matrix(offset, theta):
\*   [[cos, sin, dx], [-sin, cos, dy], [0, 0, 1]]
PlanarMatrix(offset, theta) ==
    [c |-> Cos(theta), s |-> Sin(theta), dx |-> offset[1], dy |-> offset[2]]

\* the homogeneous matrix applied to one point: the rotation, then the offset
TransformPoint(T, p) ==
    <<FAdd(FAdd(FMul(T.c, p[1]), FMul(T.s, p[2])), T.dx),
      FAdd(FAdd(FMul(-T.s, p[1]), FMul(T.c, p[2])), T.dy)>>

\* Path2D.apply_transform(matrix), on the path it is called on
ApplyTransform(path, T) ==
    [path EXCEPT !.vertices = [i \in 1..Len(@) |-> TransformPoint(T, @[i])]]

\* Path2D.apply_layer(name): every entity of the path gets the layer
ApplyLayer(path, name) ==
    [path EXCEPT !.entities = [i \in 1..Len(@) |-> [@[i] EXCEPT !.layer = name]]]

\* the centre of circle k (from 0) of a ring of count circles
RingCenter(pattern_radius, count, center, k) ==
    <<FAdd(FMul(pattern_radius, Cos(<<k, count>>)), center[1]),
      FAdd(FMul(pattern_radius, Sin(<<k, count>>)), center[2])>>

\* the three points (at 0, pi/2 and pi) trimesh holds a circle by
ThreePoint(c, r, j) ==
    LET q == <<j - 1, 4>>
    IN  <<FAdd(c[1], FMul(r, Cos(q))), FAdd(c[2], FMul(r, Sin(q)))>>

\* trimesh.path.creation.circle_pattern(pattern_radius, circle_radius, count,
\* center): count circles, evenly spaced from angle 0 on a ring about center
CirclePattern(pattern_radius, circle_radius, count, center) ==
    [vertices |-> [i \in 1..(3 * count) |->
                      ThreePoint(RingCenter(pattern_radius, count, center,
                                            (i - 1) \div 3),
                                 circle_radius, ((i - 1) % 3) + 1)],
     entities |-> [k \in 1..count |-> Entity("Arc", 3 * (k - 1) + 1, 3, TRUE)]]

RECURSIVE Concatenate(_)
\* trimesh.path.util.concatenate(paths): the vertices one after the other, the
\* entities re-indexed into them, layers kept
Concatenate(paths) ==
    IF Len(paths) = 0 THEN [vertices |-> <<>>, entities |-> <<>>]
    ELSE LET head == Concatenate(SubSeq(paths, 1, Len(paths) - 1))
             last == paths[Len(paths)]
             off == Len(head.vertices)
         IN  [vertices |-> head.vertices \o last.vertices,
              entities |-> head.entities \o
                           [i \in 1..Len(last.entities) |->
                               [last.entities[i] EXCEPT !.first = @ + off]]]

\* spacing = .5 * np.pi / (count_pin - 1), in turns
SpacingOf(count_pin) == <<1, 4 * (count_pin - 1)>>

----------------------------------------------------------------------------
(* The inputs *)

\* the sample count the model gives the disc of dual_cycloidal, in place of
\* the 32 * 360 of the source (resolution=32)
DenseSamples == 9

\* how many calls follow one another
MaxCalls == 3

\* how far apart two coordinates may be and still coincide, in units of 1/Scale
Tol == 10

DenseResolution == <<DenseSamples, DegreesPerTurn>>

ProfileArgs ==
    [count_pin : {<<3, 1>>, <<4, 1>>, <<9, 2>>, <<5, 1>>},
     eccentricity : {700, 10000},
     radius_pin : {1250},
     radius_pattern : {22500, 30000},
     count_cam : {None, <<3, 1>>, <<4, 1>>},
     resolution : {<<1, 360>>, <<1, 100>>, <<1, 72>>, <<1, 40>>}]

DualArgs ==
    [eccentricity : {700},
     count_pin : {1, 4, 5, 24},
     radius_pin : {1250},
     radius_pattern : {22500},
     input_count : {1, 3},
     input_radius : {5625},
     input_pattern : {10000, 13125}]

\* the arguments of the calls that follow one another
RepeatProfileArgs ==
    [count_pin : {<<4, 1>>},
     eccentricity : {700},
     radius_pin : {1250},
     radius_pattern : {22500},
     count_cam : {None, <<4, 1>>},
     resolution : {<<1, 72>>}]

RepeatDualArgs ==
    [eccentricity : {700},
     count_pin : {1, 4},
     radius_pin : {1250},
     radius_pattern : {22500},
     input_count : {1},
     input_radius : {5625},
     input_pattern : {10000}]

----------------------------------------------------------------------------
(* The state *)

VARIABLES
    pc,       \* the statement about to run
    stack,    \* who called cycloidal_profile: "top" or "dual"
    pargs,    \* the arguments of cycloidal_profile
    loc,      \* the locals of cycloidal_profile
    dargs,    \* the arguments of dual_cycloidal
    env,      \* the locals of dual_cycloidal: references into the heap
    heap,     \* the path objects, by reference
    result,   \* what the last call returned or raised
    history   \* the finished top-level calls: function, arguments, result

vars == <<pc, stack, pargs, loc, dargs, env, heap, result, history>>

NoProfileArgs ==
    [count_pin |-> <<0, 1>>, eccentricity |-> 0, radius_pin |-> 0,
     radius_pattern |-> 0, count_cam |-> None, resolution |-> <<0, 1>>]

NoDualArgs ==
    [eccentricity |-> 0, count_pin |-> 0, radius_pin |-> 0, radius_pattern |-> 0,
     input_count |-> 0, input_radius |-> 0, input_pattern |-> 0]

NoLocals ==
    [Rz |-> 0, rz |-> 0, e |-> 0, Zb |-> 0, Zg |-> <<0, 1>>, Ze |-> <<0, 1>>,
     Zd |-> <<0, 1>>, K1 |-> 0, psi |-> <<>>, denom_B |-> <<>>, cos_B |-> <<>>,
     sin_B |-> <<>>, x |-> <<>>, y |-> <<>>, profile |-> <<>>]

NoEnv ==
    [spacing |-> <<0, 1>>, a |-> 0, b |-> 0, pins |-> 0, holes_A |-> 0,
     holes_B |-> 0, drive |-> 0]

EmptyPath == [vertices |-> <<>>, entities |-> <<>>]

NoResult == [kind |-> "none", points |-> <<>>, path |-> EmptyPath]

Raised(exc) == [kind |-> exc, points |-> <<>>, path |-> EmptyPath]

Returned(points) == [kind |-> "profile", points |-> points, path |-> EmptyPath]

ReturnedPath(path) == [kind |-> "drawing", points |-> <<>>, path |-> path]

Init ==
    /\ pc = "idle"
    /\ stack = "top"
    /\ pargs = NoProfileArgs
    /\ loc = NoLocals
    /\ dargs = NoDualArgs
    /\ env = NoEnv
    /\ heap = <<>>
    /\ result = NoResult
    /\ history = <<>>

\* no call is running and another may start
Idle(limit) == pc \in {"idle", "done", "raised"} /\ Len(history) < limit

\* the record of the call that ends with r
Finished(r) ==
    IF stack = "top"
    THEN [fn |-> "cycloidal_profile", pargs |-> pargs, dargs |-> NoDualArgs,
          result |-> r]
    ELSE [fn |-> "dual_cycloidal", pargs |-> NoProfileArgs, dargs |-> dargs,
          result |-> r]

----------------------------------------------------------------------------
(* cycloidal_profile *)

\* a caller calls cycloidal_profile(...)
CallProfile(S, limit) ==
    /\ Idle(limit)
    /\ \E a \in S : pargs' = a
    /\ stack' = "top"
    /\ pc' = "p_coerce"
    /\ result' = NoResult
    /\ UNCHANGED <<loc, dargs, env, heap, history>>

\* lines 50-59
Coerce ==
    /\ pc = "p_coerce"
    /\ loc' = [loc EXCEPT !.Rz = pargs.radius_pattern,
                          !.rz = pargs.radius_pin,
                          !.e = pargs.eccentricity,
                          !.Zb = ZbOf(pargs.count_pin),
                          !.Zg = ZgOf(pargs.count_pin, pargs.count_cam)]
    /\ pc' = "p_ratios"
    /\ UNCHANGED <<stack, pargs, dargs, env, heap, result, history>>

\* lines 61-63, a divisor being zero: the exception ends the call, and the
\* call of dual_cycloidal around it
RatiosRaise ==
    /\ pc = "p_ratios"
    /\ RaisesZeroDivision(loc.Rz, loc.Zb, loc.Zg)
    /\ pc' = "raised"
    /\ result' = Raised("ZeroDivisionError")
    /\ history' = Append(history, Finished(Raised("ZeroDivisionError")))
    /\ UNCHANGED <<stack, pargs, loc, dargs, env, heap>>

\* lines 61-63
Ratios ==
    /\ pc = "p_ratios"
    /\ ~RaisesZeroDivision(loc.Rz, loc.Zb, loc.Zg)
    /\ loc' = [loc EXCEPT !.Ze = ZeOf(loc.Zb, loc.Zg),
                          !.Zd = ZdOf(loc.Zb, loc.Zg),
                          !.K1 = K1Of(loc.e, loc.Zb, loc.Rz, loc.Zg)]
    /\ pc' = "p_linspace"
    /\ UNCHANGED <<stack, pargs, dargs, env, heap, result, history>>

\* lines 65-66
LinspaceStep ==
    /\ pc = "p_linspace"
    /\ loc' = [loc EXCEPT !.psi = Linspace(SampleCount(pargs.resolution))]
    /\ pc' = "p_denom"
    /\ UNCHANGED <<stack, pargs, dargs, env, heap, result, history>>

\* line 67
DenomStep ==
    /\ pc = "p_denom"
    /\ loc' = [loc EXCEPT !.denom_B =
                  [i \in 1..Len(loc.psi) |-> DenomAt(loc.K1, loc.Zd, loc.psi[i])]]
    /\ pc' = "p_cosB"
    /\ UNCHANGED <<stack, pargs, dargs, env, heap, result, history>>

\* lines 68-69
CosBStep ==
    /\ pc = "p_cosB"
    /\ loc' = [loc EXCEPT !.cos_B =
                  [i \in 1..Len(loc.psi) |->
                      CosBAt(SignDiff(loc.Zb, loc.Zg), loc.K1, loc.Ze, loc.psi[i],
                             loc.denom_B[i])]]
    /\ pc' = "p_sinB"
    /\ UNCHANGED <<stack, pargs, dargs, env, heap, result, history>>

\* lines 70-71
SinBStep ==
    /\ pc = "p_sinB"
    /\ loc' = [loc EXCEPT !.sin_B =
                  [i \in 1..Len(loc.psi) |->
                      SinBAt(SignDiff(loc.Zb, loc.Zg), loc.K1, loc.Ze, loc.psi[i],
                             loc.denom_B[i])]]
    /\ pc' = "p_xy"
    /\ UNCHANGED <<stack, pargs, dargs, env, heap, result, history>>

\* lines 72-73
XYStep ==
    /\ pc = "p_xy"
    /\ loc' = [loc EXCEPT
                  !.x = [i \in 1..Len(loc.psi) |->
                            XAt(loc.Rz, loc.e, loc.rz, loc.Ze, loc.psi[i], loc.cos_B[i])],
                  !.y = [i \in 1..Len(loc.psi) |->
                            YAt(loc.Rz, loc.e, loc.rz, loc.Ze, loc.psi[i], loc.sin_B[i])]]
    /\ pc' = "p_stack"
    /\ UNCHANGED <<stack, pargs, dargs, env, heap, result, history>>

\* the rows put after those an earlier call left in profile
StackedOntoLeftover == loc.profile \o ColumnStack(loc.x, loc.y)

\* profile = np.column_stack((x, y))
Stacked == ColumnStack(loc.x, loc.y)

\* line 74
StackStep ==
    /\ pc = "p_stack"
    /\ loc' = [loc EXCEPT !.profile = Stacked]
    /\ pc' = "p_return"
    /\ UNCHANGED <<stack, pargs, dargs, env, heap, result, history>>

\* line 76, to the caller outside
ReturnProfile ==
    /\ pc = "p_return"
    /\ stack = "top"
    /\ result' = Returned(loc.profile)
    /\ history' = Append(history, Finished(Returned(loc.profile)))
    /\ pc' = "done"
    /\ UNCHANGED <<stack, pargs, loc, dargs, env, heap>>

\* line 76, to dual_cycloidal
ReturnToDual ==
    /\ pc = "p_return"
    /\ stack = "dual"
    /\ result' = Returned(loc.profile)
    /\ pc' = "d_load"
    /\ UNCHANGED <<stack, pargs, loc, dargs, env, heap, history>>

----------------------------------------------------------------------------
(* dual_cycloidal *)

\* a new object on the heap: the heap with it, and the reference to it
New(h, path) == [heap |-> Append(h, path), ref |-> Len(h) + 1]

\* b = a: no new object, b refers to the object a refers to
AliasOf(h, ref) == [heap |-> h, ref |-> ref]

\* b = a.copy(): a new object, and b refers to it
CopyOf(h, ref) == New(h, Copy(h[ref]))

\* the arguments of the call of lines 118-124
DiscArgs(d) ==
    [count_pin |-> <<d.count_pin, 1>>,
     eccentricity |-> d.eccentricity,
     radius_pin |-> d.radius_pin,
     radius_pattern |-> d.radius_pattern,
     count_cam |-> <<d.count_pin - 1, 1>>,
     resolution |-> DenseResolution]

\* the matrix of lines 133-135
MatrixA(e, spacing) == PlanarMatrix(<<-e, 0>>, spacing)

\* disc B turned the way disc A is
MatrixBSameTurn(e, spacing) == PlanarMatrix(<<e, 0>>, spacing)

\* the matrix of lines 138-140
MatrixB(e, spacing) == PlanarMatrix(<<e, 0>>, <<-spacing[1], spacing[2]>>)

\* lines 144-147
PinsOf(d) == CirclePattern(d.radius_pattern, d.radius_pin, d.count_pin, <<0, 0>>)

\* the holes of disc A about the centre of disc B
HolesAOfOtherDisc(d) ==
    CirclePattern(d.input_pattern, d.input_radius, d.input_count,
                  <<d.eccentricity, 0>>)

\* lines 151-155
HolesAOf(d) ==
    CirclePattern(d.input_pattern, d.input_radius, d.input_count,
                  <<-d.eccentricity, 0>>)

\* lines 157-161
HolesBOf(d) ==
    CirclePattern(d.input_pattern, d.input_radius, d.input_count,
                  <<d.eccentricity, 0>>)

\* the drawing without the last of the five groups
DriveOfFour(h, e) == Concatenate(<<h[e.a], h[e.b], h[e.pins], h[e.holes_A]>>)

\* lines 165-166
DriveOf(h, e) ==
    Concatenate(<<h[e.a], h[e.b], h[e.pins], h[e.holes_A], h[e.holes_B]>>)

\* a caller calls dual_cycloidal(...)
CallDual(S, limit) ==
    /\ Idle(limit)
    /\ \E d \in S : dargs' = d
    /\ stack' = "dual"
    /\ pc' = "d_spacing"
    /\ result' = NoResult
    /\ UNCHANGED <<pargs, loc, env, heap, history>>

\* line 115, count_pin - 1 being zero
SpacingRaise ==
    /\ pc = "d_spacing"
    /\ dargs.count_pin - 1 = 0
    /\ pc' = "raised"
    /\ result' = Raised("ZeroDivisionError")
    /\ history' = Append(history, Finished(Raised("ZeroDivisionError")))
    /\ UNCHANGED <<stack, pargs, loc, dargs, env, heap>>

\* line 115
SpacingStep ==
    /\ pc = "d_spacing"
    /\ dargs.count_pin - 1 # 0
    /\ env' = [env EXCEPT !.spacing = SpacingOf(dargs.count_pin)]
    /\ pc' = "d_profile"
    /\ UNCHANGED <<stack, pargs, loc, dargs, heap, result, history>>

\* lines 118-124: the call of cycloidal_profile
CallDisc ==
    /\ pc = "d_profile"
    /\ pargs' = DiscArgs(dargs)
    /\ pc' = "p_coerce"
    /\ UNCHANGED <<stack, loc, dargs, env, heap, result, history>>

\* line 118: a = trimesh.load_path(...)
LoadStep ==
    /\ pc = "d_load"
    /\ LET n == New(heap, LoadPath(result.points))
       IN  heap' = n.heap /\ env' = [env EXCEPT !.a = n.ref]
    /\ pc' = "d_simplify"
    /\ UNCHANGED <<stack, pargs, loc, dargs, result, history>>

\* line 128: a = a.simplify_spline(smooth=1e-6)
SimplifyStep ==
    /\ pc = "d_simplify"
    /\ LET n == New(heap, SimplifySpline(heap[env.a]))
       IN  heap' = n.heap /\ env' = [env EXCEPT !.a = n.ref]
    /\ pc' = "d_copy"
    /\ UNCHANGED <<stack, pargs, loc, dargs, result, history>>

\* line 131: b = a.copy()
CopyStep ==
    /\ pc = "d_copy"
    /\ LET n == CopyOf(heap, env.a)
       IN  heap' = n.heap /\ env' = [env EXCEPT !.b = n.ref]
    /\ pc' = "d_xformA"
    /\ UNCHANGED <<stack, pargs, loc, dargs, result, history>>

\* lines 133-135: a.apply_transform(...)
TransformAStep ==
    /\ pc = "d_xformA"
    /\ heap' = [heap EXCEPT ![env.a] =
                   ApplyTransform(@, MatrixA(dargs.eccentricity, env.spacing))]
    /\ pc' = "d_layerA"
    /\ UNCHANGED <<stack, pargs, loc, dargs, env, result, history>>

\* line 136
LayerAStep ==
    /\ pc = "d_layerA"
    /\ heap' = [heap EXCEPT ![env.a] = ApplyLayer(@, "cam_disc_A")]
    /\ pc' = "d_xformB"
    /\ UNCHANGED <<stack, pargs, loc, dargs, env, result, history>>

\* lines 138-140: b.apply_transform(...)
TransformBStep ==
    /\ pc = "d_xformB"
    /\ heap' = [heap EXCEPT ![env.b] =
                   ApplyTransform(@, MatrixB(dargs.eccentricity, env.spacing))]
    /\ pc' = "d_layerB"
    /\ UNCHANGED <<stack, pargs, loc, dargs, env, result, history>>

\* line 141
LayerBStep ==
    /\ pc = "d_layerB"
    /\ heap' = [heap EXCEPT ![env.b] = ApplyLayer(@, "cam_disc_B")]
    /\ pc' = "d_pins"
    /\ UNCHANGED <<stack, pargs, loc, dargs, env, result, history>>

\* lines 144-147
PinsStep ==
    /\ pc = "d_pins"
    /\ LET n == New(heap, PinsOf(dargs))
       IN  heap' = n.heap /\ env' = [env EXCEPT !.pins = n.ref]
    /\ pc' = "d_layerPins"
    /\ UNCHANGED <<stack, pargs, loc, dargs, result, history>>

\* line 148
LayerPinsStep ==
    /\ pc = "d_layerPins"
    /\ heap' = [heap EXCEPT ![env.pins] = ApplyLayer(@, "pins")]
    /\ pc' = "d_holesA"
    /\ UNCHANGED <<stack, pargs, loc, dargs, env, result, history>>

\* lines 151-155
HolesAStep ==
    /\ pc = "d_holesA"
    /\ LET n == New(heap, HolesAOf(dargs))
       IN  heap' = n.heap /\ env' = [env EXCEPT !.holes_A = n.ref]
    /\ pc' = "d_layerHolesA"
    /\ UNCHANGED <<stack, pargs, loc, dargs, result, history>>

\* line 156
LayerHolesAStep ==
    /\ pc = "d_layerHolesA"
    /\ heap' = [heap EXCEPT ![env.holes_A] = ApplyLayer(@, "cam_disc_A")]
    /\ pc' = "d_holesB"
    /\ UNCHANGED <<stack, pargs, loc, dargs, env, result, history>>

\* lines 157-161
HolesBStep ==
    /\ pc = "d_holesB"
    /\ LET n == New(heap, HolesBOf(dargs))
       IN  heap' = n.heap /\ env' = [env EXCEPT !.holes_B = n.ref]
    /\ pc' = "d_layerHolesB"
    /\ UNCHANGED <<stack, pargs, loc, dargs, result, history>>

\* line 162
LayerHolesBStep ==
    /\ pc = "d_layerHolesB"
    /\ heap' = [heap EXCEPT ![env.holes_B] = ApplyLayer(@, "cam_disc_B")]
    /\ pc' = "d_concat"
    /\ UNCHANGED <<stack, pargs, loc, dargs, env, result, history>>

\* lines 165-166
ConcatStep ==
    /\ pc = "d_concat"
    /\ LET n == New(heap, DriveOf(heap, env))
       IN  heap' = n.heap /\ env' = [env EXCEPT !.drive = n.ref]
    /\ pc' = "d_return"
    /\ UNCHANGED <<stack, pargs, loc, dargs, result, history>>

\* line 168
ReturnDual ==
    /\ pc = "d_return"
    /\ result' = ReturnedPath(heap[env.drive])
    /\ history' = Append(history, Finished(ReturnedPath(heap[env.drive])))
    /\ pc' = "done"
    /\ UNCHANGED <<stack, pargs, loc, dargs, env, heap>>

----------------------------------------------------------------------------
(* The specifications *)

\* one statement of a running call
Step ==
    \/ Coerce \/ RatiosRaise \/ Ratios \/ LinspaceStep \/ DenomStep \/ CosBStep
    \/ SinBStep \/ XYStep \/ StackStep \/ ReturnProfile \/ ReturnToDual
    \/ SpacingRaise \/ SpacingStep \/ CallDisc \/ LoadStep \/ SimplifyStep
    \/ CopyStep \/ TransformAStep \/ LayerAStep \/ TransformBStep \/ LayerBStep
    \/ PinsStep \/ LayerPinsStep \/ HolesAStep \/ LayerHolesAStep \/ HolesBStep
    \/ LayerHolesBStep \/ ConcatStep \/ ReturnDual

\* one call, of either function, with any of the arguments
Next == CallProfile(ProfileArgs, 1) \/ CallDual(DualArgs, 1) \/ Step

Spec == Init /\ [][Next]_vars

\* calls that follow one another
NextCalls ==
    \/ CallProfile(RepeatProfileArgs, MaxCalls)
    \/ CallDual(RepeatDualArgs, MaxCalls)
    \/ Step

SpecCalls == Init /\ [][NextCalls]_vars

----------------------------------------------------------------------------
(* cycloidal_profile as one function of its arguments *)

\* the point (x, y) the equations give at the angle q
PointAt(a, q) ==
    LET Zb == ZbOf(a.count_pin)
        Zg == ZgOf(a.count_pin, a.count_cam)
        Ze == ZeOf(Zb, Zg)
        Zd == ZdOf(Zb, Zg)
        K1 == K1Of(a.eccentricity, Zb, a.radius_pattern, Zg)
        sgn == SignDiff(Zb, Zg)
        denom == DenomAt(K1, Zd, q)
    IN  <<XAt(a.radius_pattern, a.eccentricity, a.radius_pin, Ze, q,
              CosBAt(sgn, K1, Ze, q, denom)),
          YAt(a.radius_pattern, a.eccentricity, a.radius_pin, Ze, q,
              SinBAt(sgn, K1, Ze, q, denom))>>

\* what cycloidal_profile(a) returns or raises
ProfileOf(a) ==
    IF RaisesZeroDivision(a.radius_pattern, ZbOf(a.count_pin),
                          ZgOf(a.count_pin, a.count_cam))
    THEN Raised("ZeroDivisionError")
    ELSE LET psi == Linspace(SampleCount(a.resolution))
         IN  Returned([i \in 1..Len(psi) |-> PointAt(a, psi[i])])

----------------------------------------------------------------------------
(* Claims about cycloidal_profile *)

\* a call of cycloidal_profile from outside has returned its curve
ProfileReturned == pc = "done" /\ stack = "top" /\ result.kind = "profile"

IsWhole(q) == q[1] % q[2] = 0

QLess(p, q) == p[1] * q[2] < q[1] * p[2]

FinitePoint(p) == IsFinite(p[1]) /\ IsFinite(p[2])

\* two points coincide within the tolerance
Near(p, q) ==
    /\ FinitePoint(p) /\ FinitePoint(q)
    /\ Abs(p[1] - q[1]) <= Tol
    /\ Abs(p[2] - q[2]) <= Tol

\* the call under way was given count_cam and count_pin with Zb = Zg
EqualCounts ==
    /\ pc # "idle"
    /\ pargs.count_cam # None
    /\ Trunc(pargs.count_cam) = Trunc(pargs.count_pin)

\* C1: a call of cycloidal_profile with count_cam equal to count_pin (Zb = Zg)
\* fails at the divisions of lines 61-63, whatever the other arguments are: it
\* never gets past them, no sample is computed, and it ends raising
\* ZeroDivisionError with no curve returned.
C1_EqualCountsRaise ==
    EqualCounts =>
        /\ pc \in {"p_coerce", "p_ratios", "raised"}
        /\ loc.psi = <<>> /\ loc.profile = <<>>
        /\ result.kind # "profile"
        /\ pc = "raised" => result = Raised("ZeroDivisionError")

\* a call with count_pin=4.5 and count_cam=4 (Zb = Zg = 4) has raised
C1_Witness ==
    /\ EqualCounts
    /\ pc = "raised"
    /\ pargs.count_pin = <<9, 2>>
    /\ pargs.eccentricity = 10000

\* the arguments the claim C2 calls valid
ValidGear(a) ==
    /\ IsWhole(a.count_pin) /\ Trunc(a.count_pin) >= 3
    /\ a.count_cam # None => /\ IsWhole(a.count_cam)
                             /\ Trunc(a.count_cam) > 0
                             /\ Trunc(a.count_cam) # Trunc(a.count_pin)
    /\ SampleCount(a.resolution) >= 2

AllFinite(points) == \A i \in 1..Len(points) : FinitePoint(points[i])

\* C2: for any valid arguments the first and the last point of the returned
\* curve coincide within the tolerance, the phases Ze*psi and Zd*psi of the
\* last sample being whole turns.  (Curves with a non-finite coordinate are
\* left out: they are the matter of C5.)
C2_Closure ==
    (ProfileReturned /\ ValidGear(pargs) /\ AllFinite(result.points)) =>
        LET n == Len(result.points)
        IN  /\ Near(result.points[1], result.points[n])
            /\ IsWhole(Times(loc.Ze, loc.psi[n]))
            /\ IsWhole(Times(loc.Zd, loc.psi[n]))

\* C5: cycloidal_profile returns no curve when K1 = 1 (denom_B is zero at
\* psi = 0), and never returns a curve with a non-finite coordinate.
C5_DegenerateRaises ==
    ProfileReturned =>
        /\ loc.K1 # Scale
        /\ AllFinite(result.points)

\* C6: with count_cam=None the disc is the regular one of the integer pin
\* count Zb: Zg = Zb - 1, Zb - Zg = 1, Ze = Zb, Zd = Zb - 1, the sign is +1,
\* and the call returns what the call with count_cam = count_pin - 1 returns.
C6_DefaultIsRegular ==
    (ProfileReturned /\ pargs.count_cam = None) =>
        /\ QEq(loc.Zg, <<loc.Zb - 1, 1>>)
        /\ QEq(TeethDiff(loc.Zb, loc.Zg), <<1, 1>>)
        /\ QEq(loc.Ze, <<loc.Zb, 1>>)
        /\ QEq(loc.Zd, <<loc.Zb - 1, 1>>)
        /\ SignDiff(loc.Zb, loc.Zg) = 1
        /\ result = ProfileOf([pargs EXCEPT
                                  !.count_cam = QSub(pargs.count_pin, <<1, 1>>)])

\* C7: the returned curve has one row for each of the N = int(resolution * 360)
\* samples of psi (N = resolution * 360 where that is a whole number), in the
\* order of psi; the samples start at 0, increase strictly, are evenly spaced,
\* and from N = 2 on end at one full turn (2*pi); row i is the point of
\* sample i.
C7_Samples ==
    ProfileReturned =>
        LET n == SampleCount(pargs.resolution)
            r == QMul(pargs.resolution, <<DegreesPerTurn, 1>>)
        IN  /\ IsWhole(r) => QEq(<<n, 1>>, r)
            /\ ~QLess(r, <<n, 1>>) /\ QLess(r, <<n + 1, 1>>)
            /\ Len(result.points) = n /\ Len(loc.psi) = n
            /\ Len(loc.x) = n /\ Len(loc.y) = n
            /\ n >= 1 => QEq(loc.psi[1], <<0, 1>>)
            /\ n >= 2 => QEq(loc.psi[n], <<1, 1>>)
            /\ \A i \in 1..(n - 1) : QLess(loc.psi[i], loc.psi[i + 1])
            /\ \A i \in 1..(n - 2) :
                  QEq(QSub(loc.psi[i + 1], loc.psi[i]),
                      QSub(loc.psi[i + 2], loc.psi[i + 1]))
            /\ \A i \in 1..n : /\ result.points[i] = <<loc.x[i], loc.y[i]>>
                               /\ result.points[i] = PointAt(pargs, loc.psi[i])

\* a curve of nine samples (resolution 1/40) has been returned
C7_Witness ==
    /\ ProfileReturned
    /\ SampleCount(pargs.resolution) = 9
    /\ Len(result.points) = 9

----------------------------------------------------------------------------
(* Claims about dual_cycloidal *)

\* a call of dual_cycloidal has returned its drawing
DrawingReturned == pc = "done" /\ stack = "dual" /\ result.kind = "drawing"

Neg(p) == <<FNeg(p[1]), FNeg(p[2])>>

\* the disc-A point at the angle q: the profile point under the matrix of A
AImage(d, q) ==
    TransformPoint(MatrixA(d.eccentricity, SpacingOf(d.count_pin)),
                   PointAt(DiscArgs(d), q))

\* the disc-B point at the angle q
BImage(d, q) ==
    TransformPoint(MatrixB(d.eccentricity, SpacingOf(d.count_pin)),
                   PointAt(DiscArgs(d), q))

\* half a turn (pi) and two spacings, in turns
HalfTurnAndTooth(d) == QAdd(<<1, 2>>, <<2, 4 * (d.count_pin - 1)>>)

\* the drawing of the scenario of C3
Scenario(d) ==
    /\ d.eccentricity = 700 /\ d.count_pin = 24
    /\ d.radius_pin = 1250 /\ d.radius_pattern = 22500

\* C3 as stated: in the drawing of the scenario, for every sample psi the
\* disc-B point at psi + pi is the reflection through the origin of the
\* disc-A point at psi.
C3_ReflectionAtPi ==
    (DrawingReturned /\ Scenario(dargs)) =>
        \A i \in 1..Len(loc.psi) :
            Near(BImage(dargs, QAdd(loc.psi[i], <<1, 2>>)),
                 Neg(result.path.vertices[i]))

\* C3 as amended: for every sample psi the disc-B point at
\* psi + pi + 2*spacing is the reflection through the origin of the disc-A
\* point at psi, and the disc-A point at psi - pi - 2*spacing that of the
\* disc-B point at psi (count_pin even, as in the scenario).
C3_ReflectionShifted ==
    (DrawingReturned /\ dargs.count_pin % 2 = 0) =>
        LET n == Len(loc.psi)
            v == result.path.vertices
            shift == HalfTurnAndTooth(dargs)
        IN  \A i \in 1..n :
                /\ Near(BImage(dargs, QAdd(loc.psi[i], shift)), Neg(v[i]))
                /\ Near(AImage(dargs, QSub(loc.psi[i], shift)), Neg(v[n + i]))

\* the drawing of the scenario has been returned
C3_Witness ==
    /\ DrawingReturned /\ Scenario(dargs)
    /\ Len(loc.psi) = DenseSamples
    /\ Len(result.path.vertices) >= 2 * DenseSamples

Layers(path) == {path.entities[i].layer : i \in 1..Len(path.entities)}

\* how many entities of the path are of the kind and in the layer
CountOf(path, kind, layer) ==
    Cardinality({i \in 1..Len(path.entities) :
                    /\ path.entities[i].kind = kind
                    /\ path.entities[i].layer = layer})

\* entity i of the path as it is drawn: kind, layer and the points it runs by
Drawn(path, i) ==
    LET en == path.entities[i]
    IN  [kind |-> en.kind, layer |-> en.layer, closed |-> en.closed,
         points |-> SubSeq(path.vertices, en.first, en.first + en.count - 1)]

DrawnSeq(path) == [i \in 1..Len(path.entities) |-> Drawn(path, i)]

\* C4: the returned drawing has the layers cam_disc_A, cam_disc_B and pins and
\* no other; cam_disc_A and cam_disc_B each hold one disc profile and
\* input_count circles, pins holds count_pin circles; the drawing's entities
\* are those of a, b, pins, holes_A and holes_B, in this order, each with its
\* layer and its points, none lost and none twice.
C4_Layers ==
    DrawingReturned =>
        LET d == result.path
        IN  /\ Layers(d) = {"cam_disc_A", "cam_disc_B", "pins"}
            /\ CountOf(d, "BSpline", "cam_disc_A") = 1
            /\ CountOf(d, "Arc", "cam_disc_A") = dargs.input_count
            /\ CountOf(d, "BSpline", "cam_disc_B") = 1
            /\ CountOf(d, "Arc", "cam_disc_B") = dargs.input_count
            /\ CountOf(d, "Arc", "pins") = dargs.count_pin
            /\ Len(d.entities) = 2 + 2 * dargs.input_count + dargs.count_pin
            /\ DrawnSeq(d) = DrawnSeq(heap[env.a]) \o DrawnSeq(heap[env.b])
                             \o DrawnSeq(heap[env.pins])
                             \o DrawnSeq(heap[env.holes_A])
                             \o DrawnSeq(heap[env.holes_B])
            /\ Len(d.vertices) = Len(heap[env.a].vertices)
                                 + Len(heap[env.b].vertices)
                                 + Len(heap[env.pins].vertices)
                                 + Len(heap[env.holes_A].vertices)
                                 + Len(heap[env.holes_B].vertices)

\* a drawing with 24 pins and three holes in each disc has been returned
C4_Witness ==
    /\ DrawingReturned
    /\ dargs.count_pin = 24 /\ dargs.input_count = 3
    /\ Len(result.path.entities) = 32

\* the centre of the circle trimesh holds by the three points from index first
CircleCenter(path, first) ==
    <<RDiv(path.vertices[first][1] + path.vertices[first + 2][1], 2),
      RDiv(path.vertices[first][2] + path.vertices[first + 2][2], 2)>>

\* the point p lies at the distance r from c, within the tolerance
AtDistance(p, c, r) ==
    LET dx == p[1] - c[1]
        dy == p[2] - c[2]
    IN  Abs(FSqrt(FMul(dx, dx) + FMul(dy, dy)) - r) <= Tol

\* the path is a ring of count circles of the radius, their centres at
\* pattern_radius from center, every one in the layer
IsRing(path, count, radius, pattern_radius, center, layer) ==
    /\ Len(path.entities) = count
    /\ \A k \in 1..count :
          LET en == path.entities[k]
              c == CircleCenter(path, en.first)
          IN  /\ en.kind = "Arc" /\ en.layer = layer /\ en.count = 3
              /\ AtDistance(c, center, pattern_radius)
              /\ \A j \in 0..2 : AtDistance(path.vertices[en.first + j], c, radius)

\* C9: disc A is the profile turned by +spacing about the origin and then
\* moved by (-e, 0), disc B the profile turned by -spacing and then moved by
\* (+e, 0), spacing = pi / (2 * (count_pin - 1)); the holes in layer cam_disc_A
\* are a ring about (-e, 0), the translation of disc A, those in cam_disc_B a
\* ring about (+e, 0); the pins are count_pin circles of radius radius_pin on a
\* ring of radius radius_pattern about the origin.
C9_Placement ==
    DrawingReturned =>
        LET e == dargs.eccentricity
            c == Cos(env.spacing)
            s == Sin(env.spacing)
            a == heap[env.a]
            b == heap[env.b]
            TA == MatrixA(e, env.spacing)
            TB == MatrixB(e, env.spacing)
        IN  /\ QEq(QMul(env.spacing, <<4 * (dargs.count_pin - 1), 1>>), <<1, 1>>)
            /\ Len(a.vertices) = Len(loc.profile)
            /\ Len(b.vertices) = Len(loc.profile)
            /\ \A i \in 1..Len(loc.profile) :
                  LET p == loc.profile[i]
                  IN  /\ a.vertices[i] = <<FMul(c, p[1]) + FMul(s, p[2]) - e,
                                           FMul(-s, p[1]) + FMul(c, p[2])>>
                      /\ b.vertices[i] = <<FMul(c, p[1]) + FMul(-s, p[2]) + e,
                                           FMul(s, p[1]) + FMul(c, p[2])>>
            /\ TransformPoint(TA, <<0, 0>>) = <<-e, 0>>
            /\ TransformPoint(TB, <<0, 0>>) = <<e, 0>>
            /\ Layers(a) = {"cam_disc_A"} /\ Layers(b) = {"cam_disc_B"}
            /\ IsRing(heap[env.holes_A], dargs.input_count, dargs.input_radius,
                      dargs.input_pattern, <<TA.dx, TA.dy>>, "cam_disc_A")
            /\ IsRing(heap[env.holes_A], dargs.input_count, dargs.input_radius,
                      dargs.input_pattern, <<-e, 0>>, "cam_disc_A")
            /\ IsRing(heap[env.holes_B], dargs.input_count, dargs.input_radius,
                      dargs.input_pattern, <<TB.dx, TB.dy>>, "cam_disc_B")
            /\ IsRing(heap[env.holes_B], dargs.input_count, dargs.input_radius,
                      dargs.input_pattern, <<e, 0>>, "cam_disc_B")
            /\ IsRing(heap[env.pins], dargs.count_pin, dargs.radius_pin,
                      dargs.radius_pattern, <<0, 0>>, "pins")

\* a drawing with four pins and three holes in each disc has been returned
C9_Witness ==
    /\ DrawingReturned
    /\ dargs.count_pin = 4 /\ dargs.input_count = 3
    /\ dargs.input_pattern = 13125
    /\ Len(heap[env.holes_A].entities) = 3

\* the statements of dual_cycloidal from the copy on, from the transform of B
\* on, and from the tagging of B on
AfterCopy ==
    {"d_xformA", "d_layerA", "d_xformB", "d_layerB", "d_pins", "d_layerPins",
     "d_holesA", "d_layerHolesA", "d_holesB", "d_layerHolesB", "d_concat",
     "d_return"}

AfterTransformB == AfterCopy \ {"d_xformA", "d_layerA", "d_xformB"}

AfterLayerB == AfterTransformB \ {"d_layerB"}

At(pcs) == pc \in pcs \/ (DrawingReturned /\ "d_return" \in pcs)

\* C10: b is a copy, an object of its own, of the simplified curve as it is
\* before any transform; once B is transformed its points are those of the
\* simplified curve under the matrix of B alone, and those of A are still the
\* simplified curve under the matrix of A alone; tagging B leaves the layer of
\* A as it is; the pins and the hole rings of the drawing are as they were made.
C10_CopyBeforeTransform ==
    LET e == dargs.eccentricity
        a == heap[env.a]
        b == heap[env.b]
        simplified == SimplifySpline(LoadPath(loc.profile))
    IN  /\ At(AfterCopy) => env.a # env.b
        /\ pc = "d_xformA" => a = simplified /\ b = simplified
        /\ pc = "d_xformB" =>
              /\ b = simplified
              /\ a = ApplyLayer(ApplyTransform(simplified,
                                               MatrixA(e, env.spacing)),
                                "cam_disc_A")
        /\ At(AfterTransformB) =>
              /\ b.vertices = ApplyTransform(simplified,
                                             MatrixB(e, env.spacing)).vertices
              /\ a = ApplyLayer(ApplyTransform(simplified,
                                               MatrixA(e, env.spacing)),
                                "cam_disc_A")
        /\ At(AfterLayerB) =>
              b = ApplyLayer(ApplyTransform(simplified, MatrixB(e, env.spacing)),
                             "cam_disc_B")
        /\ DrawingReturned =>
              /\ heap[env.pins] = ApplyLayer(PinsOf(dargs), "pins")
              /\ heap[env.holes_A] = ApplyLayer(HolesAOf(dargs), "cam_disc_A")
              /\ heap[env.holes_B] = ApplyLayer(HolesBOf(dargs), "cam_disc_B")

\* B has been transformed and tagged, in the call with five pins
C10_Witness ==
    /\ pc = "d_pins"
    /\ dargs.count_pin = 5
    /\ env.a # env.b
    /\ heap[env.b].vertices # heap[env.a].vertices

----------------------------------------------------------------------------
(* Claims about calls that follow one another *)

SameCall(h, k) == h.fn = k.fn /\ h.pargs = k.pargs /\ h.dargs = k.dargs

\* C8: of the calls of a run, with any calls in between, two of the same
\* function with the same arguments end the same way, with the same curve or
\* drawing returned or the same exception; and what cycloidal_profile returns
\* is what its arguments alone give.
C8_Deterministic ==
    /\ \A i, j \in 1..Len(history) :
          SameCall(history[i], history[j]) => history[i].result = history[j].result
    /\ \A i \in 1..Len(history) :
          history[i].fn = "cycloidal_profile" =>
              history[i].result = ProfileOf(history[i].pargs)

\* dual_cycloidal was called twice with the same arguments, with a call of
\* cycloidal_profile in between, and returned the same drawing
C8_Witness ==
    /\ Len(history) = 3
    /\ history[1].fn = "dual_cycloidal"
    /\ history[2].fn = "cycloidal_profile"
    /\ SameCall(history[1], history[3])
    /\ history[3].result.kind = "drawing"

=============================================================================
